---- MODULE Spec2Model ----
(***************************************************************************)
(* The streaming year partitioner of split_data.py: parse_year,            *)
(* WriterCache (get_writer / increment_row / close_all) and the row loop   *)
(* of split_csv_by_year, over a small file system.                         *)
(*                                                                         *)
(* Text is a tuple of one-character strings (<<"2","0","2","0">>); a       *)
(* multi-character token stands for a fixed piece of text ("weather_") or  *)
(* for a value that is not text (NoneVal).                                 *)
(***************************************************************************)
EXTENDS Integers, Sequences, FiniteSets, TLC

\* Bounds of the model.
MaxInputRows == 4
MaxOpenLimit == 2
MaxRowsPerFileLimit == 2

-----------------------------------------------------------------------------
(* Text helpers *)

DigitChars == {"0", "1", "2", "3", "4", "5", "6", "7", "8", "9"}

\* Decimal digits outside ASCII (fullwidth zero and two, U+FF10 and U+FF12):
\* str.isdigit() is true of them, int() and the \d of strptime accept them.
FullwidthDigitChars == {"FULLWIDTH_ZERO", "FULLWIDTH_TWO"}

\* Characters c with c.isdigit() for which int(c) fails (superscript two).
NonDecimalDigitChars == {"SUPERSCRIPT_TWO"}

WhitespaceChars == {" ", "\t"}

DigitVal(c) ==
  CASE c = "0" -> 0 [] c = "1" -> 1 [] c = "2" -> 2 [] c = "3" -> 3
    [] c = "4" -> 4 [] c = "5" -> 5 [] c = "6" -> 6 [] c = "7" -> 7
    [] c = "8" -> 8 [] c = "9" -> 9
    [] c = "FULLWIDTH_ZERO" -> 0 [] c = "FULLWIDTH_TWO" -> 2

DigitChar(d) ==
  CASE d = 0 -> "0" [] d = 1 -> "1" [] d = 2 -> "2" [] d = 3 -> "3"
    [] d = 4 -> "4" [] d = 5 -> "5" [] d = 6 -> "6" [] d = 7 -> "7"
    [] d = 8 -> "8" [] d = 9 -> "9"

AllDigits(s) == \A i \in 1..Len(s) : s[i] \in DigitChars

\* int(s) succeeds for the non-empty text s: decimal digits, ASCII or not.
IntAccepts(s) == \A i \in 1..Len(s) : s[i] \in DigitChars \cup FullwidthDigitChars

RECURSIVE Num(_)
\* int() of a non-empty text of ASCII digits.
Num(s) == IF Len(s) = 0 THEN 0
          ELSE 10 * Num(SubSeq(s, 1, Len(s) - 1)) + DigitVal(s[Len(s)])

RECURSIVE Dec(_)
\* str(n) for n >= 0.
Dec(n) == IF n < 10 THEN <<DigitChar(n)>>
          ELSE Dec(n \div 10) \o <<DigitChar(n % 10)>>

\* format(n, "02d") for n >= 0: at least two digits, zero padded, never cut.
Fmt02d(n) == IF n < 10 THEN <<"0">> \o Dec(n) ELSE Dec(n)

RECURSIVE LStrip(_)
LStrip(s) == IF Len(s) > 0 /\ s[1] \in WhitespaceChars THEN LStrip(Tail(s)) ELSE s

RECURSIVE RStrip(_)
RStrip(s) == IF Len(s) > 0 /\ s[Len(s)] \in WhitespaceChars
             THEN RStrip(SubSeq(s, 1, Len(s) - 1)) ELSE s

\* Mutant of Strip: the text is taken as it is.
StripNothing(s) == s

\* str.strip()
Strip(s) == RStrip(LStrip(s))

-----------------------------------------------------------------------------
(* parse_year *)

IsLeap(y) == (y % 4 = 0 /\ y % 100 # 0) \/ y % 400 = 0

DaysInMonth(y, m) ==
  IF m = 2 THEN (IF IsLeap(y) THEN 29 ELSE 28)
  ELSE IF m \in {4, 6, 9, 11} THEN 30 ELSE 31

\* datetime(y, m, d) accepts the date (MINYEAR = 1).
ValidDate(y, m, d) == y >= 1 /\ m \in 1..12 /\ d >= 1 /\ d <= DaysInMonth(y, m)

Fail(msg) == [ok |-> FALSE, year |-> 0, err |-> msg]
Ok(y) == [ok |-> TRUE, year |-> y, err |-> "none"]

\* s[from..to] is exactly two ASCII digits.
TwoDigits(s, from) ==
  Len(s) >= from + 1 /\ s[from] \in DigitChars /\ s[from + 1] \in DigitChars

\* The clock part HH:MM:SS of s, starting at position from and ending the text.
IsoTime(s, from) ==
  /\ Len(s) = from + 7
  /\ TwoDigits(s, from) /\ s[from + 2] = ":"
  /\ TwoDigits(s, from + 3) /\ s[from + 5] = ":"
  /\ TwoDigits(s, from + 6)
  /\ Num(SubSeq(s, from, from + 1)) <= 23
  /\ Num(SubSeq(s, from + 3, from + 4)) <= 59
  /\ Num(SubSeq(s, from + 6, from + 7)) <= 59

\* The date part YYYY<sep>MM<sep>DD at the start of s, two-digit month and day.
FixedDate(s, sep) ==
  /\ Len(s) >= 10
  /\ AllDigits(SubSeq(s, 1, 4)) /\ s[5] = sep
  /\ TwoDigits(s, 6) /\ s[8] = sep /\ TwoDigits(s, 9)
  /\ ValidDate(Num(SubSeq(s, 1, 4)), Num(SubSeq(s, 6, 7)), Num(SubSeq(s, 9, 10)))

\* datetime.fromisoformat(s) succeeds: YYYY-MM-DD, alone or followed by one
\* separator character (any) and HH:MM:SS.
FromIsoFormatOk(s) ==
  /\ FixedDate(s, "-")
  /\ \/ Len(s) = 10
     \/ Len(s) > 11 /\ IsoTime(s, 12)

\* The date part of s as strptime reads it with %Y<sep>%m<sep>%d: %Y is four
\* decimal digits (\d\d\d\d, ASCII or not), month and day two ASCII digits.
StrptimeDate(s, sep) ==
  /\ Len(s) >= 10
  /\ IntAccepts(SubSeq(s, 1, 4)) /\ s[5] = sep
  /\ TwoDigits(s, 6) /\ s[8] = sep /\ TwoDigits(s, 9)
  /\ ValidDate(Num(SubSeq(s, 1, 4)), Num(SubSeq(s, 6, 7)), Num(SubSeq(s, 9, 10)))

\* datetime.strptime(s, fmt) succeeds for the four fallback formats, on text
\* with two-digit month, day, hour, minute and second fields.
StrptimeOk(s, sep, withTime) ==
  /\ StrptimeDate(s, sep)
  /\ IF withTime THEN Len(s) > 11 /\ s[11] = " " /\ IsoTime(s, 12)
     ELSE Len(s) = 10

\* The (separator, with time) pairs of the four strptime formats, in order.
FallbackFormats == << <<"-", TRUE>>, <<"-", FALSE>>, <<"/", TRUE>>, <<"/", FALSE>> >>

\* Mutant of PrefixIsDigit: the prefix is never taken for a year.
PrefixIsDigitNever(s) == FALSE

\* s[:4].isdigit(): str.isdigit is true of the ASCII digits, of the other
\* decimal digits and of digit characters that int() rejects.
PrefixIsDigit(s) ==
  Len(s) >= 4 /\
  \A i \in 1..4 : s[i] \in DigitChars \cup FullwidthDigitChars \cup NonDecimalDigitChars

parse_year(dt_str) ==
  LET s == Strip(dt_str) IN
  IF Len(s) = 0 THEN Fail("Empty datetime string")
  ELSE IF FromIsoFormatOk(s) THEN Ok(Num(SubSeq(s, 1, 4)))
  ELSE IF \E i \in 1..Len(FallbackFormats) :
            StrptimeOk(s, FallbackFormats[i][1], FallbackFormats[i][2])
       THEN Ok(Num(SubSeq(s, 1, 4)))
  ELSE IF PrefixIsDigit(s)
       THEN (IF IntAccepts(SubSeq(s, 1, 4)) THEN Ok(Num(SubSeq(s, 1, 4)))
             ELSE Fail("invalid literal for int() with base 10"))
  ELSE Fail("Unrecognized datetime format")

\* The attempt of parse_year that returns, in the order of the code: the
\* empty check (line 21), fromisoformat (27), the strptime formats one by
\* one (32-36), the four-character prefix (39-40), or none (42).
parse_year_attempt(dt_str) ==
  LET s == Strip(dt_str) IN
  IF Len(s) = 0 THEN "empty"
  ELSE IF FromIsoFormatOk(s) THEN "fromisoformat"
  ELSE IF StrptimeOk(s, FallbackFormats[1][1], FallbackFormats[1][2]) THEN "%Y-%m-%d %H:%M:%S"
  ELSE IF StrptimeOk(s, FallbackFormats[2][1], FallbackFormats[2][2]) THEN "%Y-%m-%d"
  ELSE IF StrptimeOk(s, FallbackFormats[3][1], FallbackFormats[3][2]) THEN "%Y/%m/%d %H:%M:%S"
  ELSE IF StrptimeOk(s, FallbackFormats[4][1], FallbackFormats[4][2]) THEN "%Y/%m/%d"
  ELSE IF PrefixIsDigit(s) THEN "prefix"
  ELSE "none"

-----------------------------------------------------------------------------
(* Input rows *)

\* None, the value csv.DictReader stores for a missing field (restval).
NoneVal == <<"<None>">>

\* The partition column looked up by split_csv_by_year (datetime_col default).
DatetimeCol == <<"d", "a", "t", "e", "t", "i", "m", "e">>
TempCol == <<"t", "e", "m", "p">>
DateCol == <<"d", "a", "t", "e">>
ErrorCol == <<"_", "e", "r", "r", "o", "r">>

\* Header lines of the input: none at all, one without the partition column,
\* one with it.
Headers == { <<>>, <<DateCol, TempCol>>, <<DatetimeCol, TempCol>> }

D2020 == <<"2", "0", "2", "0", "-", "0", "1", "-", "0", "1">>
D2021 == <<"2", "0", "2", "1", "-", "0", "1", "-", "0", "1",
           " ", "1", "0", ":", "0", "0", ":", "0", "0">>
D2022 == <<"2", "0", "2", "2", "/", "0", "3", "/", "0", "4">>
DBad == <<"b", "a", "d", "-", "v", "a", "l", "u", "e">>
Val == <<"7">>
Extra == <<"x">>

\* The field lists a data line of the input can carry: as many fields as the
\* header, one more, or one fewer.
Rows == { <<D2020, Val>>, <<D2021>>, <<D2022, Val, Extra>>,
          <<DBad, Val>>, <<DBad, Val, Extra>>, <<DBad>> }

\* The years the rows of the model parse to.
Years == { parse_year(r[1]).year : r \in { q \in Rows : parse_year(q[1]).ok } }

\* csv.DictReader: the row as a mapping from the header's columns, with None
\* for missing fields, and the fields beyond the header under the key None.
DictRow(hdr, fields) ==
  [cols |-> [i \in 1..Len(hdr) |-> IF i <= Len(fields) THEN fields[i] ELSE NoneVal],
   rest |-> SubSeq(fields, Len(hdr) + 1, Len(fields))]

NoRow == [cols |-> <<>>, rest |-> <<>>]

\* (row.get(datetime_col, "") or ""): the text handed to parse_year.
RowGet(hdr, row, col) ==
  IF \E i \in 1..Len(hdr) : hdr[i] = col
  THEN LET i == CHOOSE j \in 1..Len(hdr) : hdr[j] = col /\ \A k \in 1..(j - 1) : hdr[k] # col
       IN  IF row.cols[i] = NoneVal THEN <<>> ELSE row.cols[i]
  ELSE <<>>

\* csv.DictWriter(fieldnames=header, extrasaction="ignore").writerow(row): one
\* field per header column, None written as the empty text, extras ignored.
PartitionLine(id, row) ==
  [id |-> id,
   fields |-> [i \in 1..Len(row.cols) |-> IF row.cols[i] = NoneVal THEN <<>> ELSE row.cols[i]]]

\* writer.writeheader(): the header line (id 0 marks a header).
HeaderLine(hdr) == [id |-> 0, fields |-> hdr]

\* bad_writer.writerow(row2), row2 = row plus "_error": DictWriter with the
\* default extrasaction="raise" refuses a mapping with a key outside
\* fieldnames, here the key None that holds the extra fields.
BadWriterRaises(row) == Len(row.rest) > 0

\* Mutant of BadLine: the row is written without its failure reason.
BadLineNoReason(id, row, err) ==
  [id |-> id, fields |-> PartitionLine(id, row).fields]

BadLine(id, row, err) ==
  [id |-> id, fields |-> PartitionLine(id, row).fields \o << <<err>> >>]

\* f"weather_{year}_part_{chunk_idx:02d}.csv"
out_path(yr, chunk_idx) ==
  <<"weather_">> \o Dec(yr) \o <<"_part_">> \o Fmt02d(chunk_idx) \o <<".csv">>

-----------------------------------------------------------------------------
(* State *)

VARIABLES
  header,             \* reader.fieldnames of the input
  max_open,           \* --max-open
  max_rows_per_file,  \* --max-rows-per-file; 0 stands for None (both are falsy)
  bad_rows_csv,       \* TRUE when a bad-rows path is configured
  input_len,          \* number of data rows of the input
  source,             \* the field lists the data lines of the input are drawn from
  faults,             \* number of I/O errors the environment has raised so far
  clean_files,        \* partition path -> name clean_weather_data gave its output
  run,                \* number of the run into this output directory, from 1
  pc,                 \* position of split_csv_by_year
  dir_exists,         \* the output directory exists
  files,              \* output directory: path -> lines of the file
  input,              \* the data rows read so far, in order
  keys,               \* what parse_year made of each of them (NoYear: failure)
  last_get,           \* year -> value of total at its latest get_writer call
  total,              \* rows processed
  bad,                \* bad rows
  row,                \* the row of the current iteration
  year,               \* the year parsed from the current row
  local,              \* get_writer's locals rows_written, chunk_idx
  exc,                \* the exception being handled or propagated
  year_state,         \* WriterCache._year_state
  cache,              \* WriterCache._cache, least recently used first
  open_fhs,           \* the partition file handles that are open
  opened,             \* number of open() calls on partition files so far
  closed,             \* the close() calls on partition handles so far, in order
  bad_fh,             \* bad-rows handle: "none", "open" or "closed"
  badfile             \* lines of the bad-rows file

\* The configuration of the run, fixed from the start.
confvars == <<header, max_open, max_rows_per_file, bad_rows_csv, input_len, source>>
cfgvars == <<confvars, faults, clean_files, run>>
vars == <<header, max_open, max_rows_per_file, bad_rows_csv, input_len, source, faults,
          clean_files, run,
          pc, dir_exists, files, input, keys, last_get, total, bad, row, year, local,
          exc, year_state, cache, open_fhs, opened, closed, bad_fh, badfile>>

\* One entry of closed: the handle, the row count at the time of the close()
\* and the place that called it ("rollover", "evict" or "close_all").
Closing(fh, at, by) == [fh |-> fh, at |-> at, by |-> by]

NoExc == "none"
NoYear == 0 - 1
NoLocal == [rows_written |-> 0, chunk_idx |-> 0]

\* self._year_state.get(year, (0, 0))
YearStateGet(ys, yr) ==
  IF yr \in DOMAIN ys THEN ys[yr] ELSE [rows_written |-> 0, chunk_idx |-> 0]

\* self._year_state[year] = (rows_written, chunk_idx)
YearStateSet(ys, yr, st) ==
  [y \in (DOMAIN ys) \cup {yr} |-> IF y = yr THEN st ELSE ys[y]]

\* year in self._cache
InCache(c, yr) == \E i \in 1..Len(c) : c[i].year = yr

CacheIndex(c, yr) == CHOOSE i \in 1..Len(c) : c[i].year = yr

\* Mutant of CachePop: the entry stays in the cache.
CachePopKeeps(c, yr) == c

\* self._cache.pop(year): the cache without the entry of year.
CachePop(c, yr) == SelectSeq(c, LAMBDA e : e.year # yr)

\* self._cache[year]
CacheGet(c, yr) == c[CacheIndex(c, yr)]

\* Mutant of FileTouch: the file is opened with mode "w" and loses its content.
FileTruncate(fs, path) == [p \in (DOMAIN fs) \cup {path} |-> IF p = path THEN <<>> ELSE fs[p]]

\* open(path, "a") creates an absent file; an existing one is kept.
FileTouch(fs, path) ==
  [p \in (DOMAIN fs) \cup {path} |-> IF p \in DOMAIN fs THEN fs[p] ELSE <<>>]

\* Mutant of FileAppend: the line is written at the start of the file.
FileAppendFront(fs, path, line) ==
  [p \in (DOMAIN fs) \cup {path} |->
     IF p = path THEN <<line>> \o (IF p \in DOMAIN fs THEN fs[p] ELSE <<>>) ELSE fs[p]]

\* A write through a handle opened for append: the line goes to the end.
FileAppend(fs, path, line) ==
  [p \in (DOMAIN fs) \cup {path} |->
     IF p = path THEN (IF p \in DOMAIN fs THEN fs[p] ELSE <<>>) \o <<line>> ELSE fs[p]]

\* The state of a run before its first step, in an output location that
\* holds no partition file.
InitRun ==
  /\ faults = 0
  /\ clean_files = <<>>
  /\ run = 1
  /\ pc = "start"
  /\ dir_exists \in BOOLEAN
  /\ files = <<>>
  /\ input = <<>>
  /\ keys = <<>>
  /\ last_get = <<>>
  /\ total = 0
  /\ bad = 0
  /\ row = NoRow
  /\ year = NoYear
  /\ local = NoLocal
  /\ exc = NoExc
  /\ year_state = <<>>
  /\ cache = <<>>
  /\ open_fhs = {}
  /\ opened = 0
  /\ closed = <<>>
  /\ bad_fh = "none"
  /\ badfile = <<>>

Init ==
  /\ header \in Headers
  /\ max_open \in 0..MaxOpenLimit
  /\ max_rows_per_file \in 0..MaxRowsPerFileLimit
  /\ bad_rows_csv \in BOOLEAN
  /\ input_len \in 0..MaxInputRows
  /\ source = Rows
  /\ InitRun

-----------------------------------------------------------------------------
\* line 126: datetime_col in reader.fieldnames
HasColumn(hdr, col) == \E i \in 1..Len(hdr) : hdr[i] = col

(* split_csv_by_year, lines 110-140: the output directory, the header check,
   the cache and the bad-rows file *)
Start ==
  /\ pc = "start"
  /\ dir_exists' = TRUE
  /\ IF Len(header) = 0
     THEN /\ pc' = "raised"
          /\ exc' = "CSV appears to have no header row."
          /\ UNCHANGED <<bad_fh, badfile>>
     ELSE IF ~HasColumn(header, DatetimeCol)
     THEN /\ pc' = "raised"
          /\ exc' = "Missing required column"
          /\ UNCHANGED <<bad_fh, badfile>>
     ELSE /\ pc' = "loop"
          /\ exc' = NoExc
          /\ bad_fh' = IF bad_rows_csv THEN "open" ELSE "none"
          /\ badfile' = IF bad_rows_csv
                        THEN <<HeaderLine(header \o <<ErrorCol>>)>> ELSE <<>>
  /\ UNCHANGED <<cfgvars, closed, files, input, keys, last_get, total, bad, row, year, local,
                 year_state, cache, open_fhs, opened>>

(* lines 143-152: the next row, total += 1, parse_year *)
ReadRow ==
  /\ pc = "loop"
  /\ total < input_len
  /\ \E fields \in source :
       LET r == DictRow(header, fields)
           p == parse_year(RowGet(header, r, DatetimeCol))
       IN  /\ input' = Append(input, fields)
           /\ keys' = Append(keys, IF p.ok THEN p.year ELSE NoYear)
           /\ row' = r
           /\ IF p.ok
              THEN pc' = "get_writer" /\ year' = p.year /\ exc' = NoExc
              ELSE pc' = "except" /\ year' = NoYear /\ exc' = p.err
  /\ total' = total + 1
  /\ UNCHANGED <<cfgvars, closed, dir_exists, files, last_get, bad, local, year_state, cache,
                 open_fhs, opened, bad_fh, badfile>>

\* Mutant of RolloverDue: the segment rolls over one row too late.
RolloverDueLate(rows_written) ==
  max_rows_per_file # 0 /\ rows_written > max_rows_per_file

\* get_writer, line 61: the year's segment has reached max_rows_per_file.
RolloverDue(rows_written) ==
  max_rows_per_file # 0 /\ rows_written >= max_rows_per_file

\* Mutant of RolledOver: the row count is not reset on rollover.
RolledOverKeepsCount(st) ==
  [rows_written |-> st.rows_written, chunk_idx |-> st.chunk_idx + 1]

\* Mutant of RolledOver: the rollover skips a segment index.
RolledOverSkipsIndex(st) == [rows_written |-> 0, chunk_idx |-> st.chunk_idx + 2]

\* get_writer, lines 66-67: the next segment, with no row in it yet.
RolledOver(st) == [rows_written |-> 0, chunk_idx |-> st.chunk_idx + 1]

(* get_writer, lines 58-67: read the year's state and roll over *)
GetWriterRollover ==
  /\ pc = "get_writer"
  /\ LET st == YearStateGet(year_state, year) IN
       IF RolloverDue(st.rows_written)
       THEN /\ local' = RolledOver(st)
            /\ IF InCache(cache, year)
               THEN /\ cache' = CachePop(cache, year)
                    /\ open_fhs' = open_fhs \ {CacheGet(cache, year).fh}
                    /\ closed' = Append(closed,
                                        Closing(CacheGet(cache, year).fh, total, "rollover"))
               ELSE UNCHANGED <<cache, open_fhs, closed>>
       ELSE /\ local' = st
            /\ UNCHANGED <<cache, open_fhs, closed>>
  /\ pc' = "lookup"
  /\ last_get' = [y \in (DOMAIN last_get) \cup {year} |->
                    IF y = year THEN total ELSE last_get[y]]
  /\ UNCHANGED <<cfgvars, dir_exists, files, input, keys, total, bad, row, year, exc,
                 year_state, opened, bad_fh, badfile>>

(* get_writer, lines 69-71 and 90-91: the year is open, mark it most recent *)
GetWriterHit ==
  /\ pc = "lookup"
  /\ InCache(cache, year)
  /\ cache' = Append(CachePop(cache, year), CacheGet(cache, year))
  /\ year_state' = YearStateSet(year_state, year, local)
  /\ pc' = "write"
  /\ UNCHANGED <<cfgvars, closed, dir_exists, files, input, keys, last_get, total, bad, row, year, local,
                 exc, open_fhs, opened, bad_fh, badfile>>

\* Mutant of CacheFull: the eviction starts one entry too late.
CacheFullOffByOne(c) == Len(c) > max_open

\* get_writer, line 74: the loop condition of the eviction.
CacheFull(c) == Len(c) >= max_open

\* Mutant of EvictIndex: popitem() takes the most recently used entry.
EvictNewest(c) == Len(c)

\* get_writer, line 75: popitem(last=False) takes the entry at this position.
EvictIndex(c) == 1

\* Mutant of GetWriterEvict: the evicted year's rows_written and chunk_idx
\* are forgotten with its handle.
GetWriterEvictForgets ==
  /\ pc = "lookup"
  /\ ~InCache(cache, year)
  /\ CacheFull(cache)
  /\ IF Len(cache) = 0
     THEN /\ pc' = "except"
          /\ exc' = "'dictionary is empty'"
          /\ UNCHANGED <<cache, open_fhs, closed, year_state>>
     ELSE /\ cache' = [i \in 1..(Len(cache) - 1) |->
                         IF i < EvictIndex(cache) THEN cache[i] ELSE cache[i + 1]]
          /\ open_fhs' = open_fhs \ {cache[EvictIndex(cache)].fh}
          /\ closed' = Append(closed, Closing(cache[EvictIndex(cache)].fh, total, "evict"))
          /\ year_state' = YearStateSet(year_state, cache[EvictIndex(cache)].year, NoLocal)
          /\ UNCHANGED <<pc, exc>>
  /\ UNCHANGED <<cfgvars, dir_exists, files, input, keys, last_get, total, bad, row, year, local,
                 opened, bad_fh, badfile>>

(* get_writer, lines 74-76: one iteration of the eviction loop; popitem on an
   empty cache raises KeyError, which the row loop catches *)
GetWriterEvict ==
  /\ pc = "lookup"
  /\ ~InCache(cache, year)
  /\ CacheFull(cache)
  /\ IF Len(cache) = 0
     THEN /\ pc' = "except"
          /\ exc' = "'dictionary is empty'"
          /\ UNCHANGED <<cache, open_fhs, closed>>
     ELSE /\ cache' = [i \in 1..(Len(cache) - 1) |->
                         IF i < EvictIndex(cache) THEN cache[i] ELSE cache[i + 1]]
          /\ open_fhs' = open_fhs \ {cache[EvictIndex(cache)].fh}
          /\ closed' = Append(closed, Closing(cache[EvictIndex(cache)].fh, total, "evict"))
          /\ UNCHANGED <<pc, exc>>
  /\ UNCHANGED <<cfgvars, dir_exists, files, input, keys, last_get, total, bad, row, year, local,
                 year_state, opened, bad_fh, badfile>>

\* Mutant of HeaderDue: the header is written on every open.
HeaderDueOnEveryOpen(fs, path) == TRUE

\* get_writer, line 85: the header is written into a new or empty file.
HeaderDue(fs, path) == path \notin DOMAIN fs \/ Len(fs[path]) = 0

(* get_writer, lines 78-90: open the segment file for append, write the
   header into a new or empty file, register the entry *)
GetWriterOpen ==
  /\ pc = "lookup"
  /\ ~InCache(cache, year)
  /\ ~CacheFull(cache)
  /\ LET path == out_path(year, local.chunk_idx)
         fh == [path |-> path, id |-> opened + 1]
     IN  /\ files' = IF HeaderDue(files, path)
                     THEN FileAppend(files, path, HeaderLine(header))
                     ELSE FileTouch(files, path)
         /\ open_fhs' = open_fhs \cup {fh}
         /\ cache' = Append(cache, [year |-> year, fh |-> fh])
  /\ opened' = opened + 1
  /\ dir_exists' = TRUE
  /\ year_state' = YearStateSet(year_state, year, local)
  /\ pc' = "write"
  /\ UNCHANGED <<cfgvars, closed, input, keys, last_get, total, bad, row, year, local, exc,
                 bad_fh, badfile>>

\* increment_row, lines 94-95
\* Mutant of increment_row: the counter is left as it was.
increment_rowNot(ys, yr) == YearStateSet(ys, yr, YearStateGet(ys, yr))

increment_row(ys, yr) ==
  LET st == YearStateGet(ys, yr)
  IN  YearStateSet(ys, yr, [rows_written |-> st.rows_written + 1,
                            chunk_idx |-> st.chunk_idx])

\* Mutant of WriteRow: the row goes to the year's first segment file.
WriteRowToFirstSegment ==
  /\ pc = "write"
  /\ files' = FileAppend(files, out_path(year, 0), PartitionLine(total, row))
  /\ year_state' = increment_row(year_state, year)
  /\ pc' = "loop"
  /\ row' = NoRow
  /\ year' = NoYear
  /\ local' = NoLocal
  /\ UNCHANGED <<cfgvars, closed, dir_exists, input, keys, last_get, total, bad, exc, cache,
                 open_fhs, opened, bad_fh, badfile>>

(* lines 154-155: writer.writerow(row) through the handle get_writer
   returned, then cache.increment_row(year) *)
WriteRow ==
  /\ pc = "write"
  /\ files' = FileAppend(files, CacheGet(cache, year).fh.path, PartitionLine(total, row))
  /\ year_state' = increment_row(year_state, year)
  /\ pc' = "loop"
  /\ row' = NoRow
  /\ year' = NoYear
  /\ local' = NoLocal
  /\ UNCHANGED <<cfgvars, closed, dir_exists, input, keys, last_get, total, bad, exc, cache,
                 open_fhs, opened, bad_fh, badfile>>

(* lines 156-162: the handler of the row loop; an exception raised by
   bad_writer.writerow leaves the loop *)
Except ==
  /\ pc = "except"
  /\ bad' = bad + 1
  /\ IF bad_rows_csv /\ BadWriterRaises(row)
     THEN /\ pc' = "finally"
          /\ exc' = "dict contains fields not in fieldnames"
          /\ UNCHANGED badfile
     ELSE /\ pc' = "loop"
          /\ exc' = NoExc
          /\ badfile' = IF bad_rows_csv
                        THEN Append(badfile, BadLine(total, row, exc)) ELSE badfile
  /\ row' = NoRow
  /\ year' = NoYear
  /\ local' = NoLocal
  /\ UNCHANGED <<cfgvars, closed, dir_exists, files, input, keys, last_get, total, year_state, cache,
                 open_fhs, opened, bad_fh>>

(* line 143: the reader is exhausted *)
EndOfInput ==
  /\ pc = "loop"
  /\ total = input_len
  /\ pc' = "finally"
  /\ UNCHANGED <<cfgvars, closed, dir_exists, files, input, keys, last_get, total, bad, row, year, local,
                 exc, year_state, cache, open_fhs, opened, bad_fh, badfile>>

\* close_all without self._cache.clear().
close_allKeepsCache(c, fhs) ==
  [cache |-> c,
   open_fhs |-> fhs \ { c[i].fh : i \in 1..Len(c) },
   closing |-> [i \in 1..Len(c) |-> c[i].fh]]

\* close_all, lines 98-100: the handles left open, the cache left behind and
\* the handles close() was called on, in the order of the cache.
close_all(c, fhs) ==
  [cache |-> <<>>,
   open_fhs |-> fhs \ { c[i].fh : i \in 1..Len(c) },
   closing |-> [i \in 1..Len(c) |-> c[i].fh]]

\* The close() calls of one close_all, as entries of closed.
ClosingAll(c, fhs, at) ==
  [i \in 1..Len(close_all(c, fhs).closing) |->
     Closing(close_all(c, fhs).closing[i], at, "close_all")]

(* lines 163-166: cache.close_all(), bad_fh.close(); then the summary or the
   propagating exception *)
Finally ==
  /\ pc = "finally"
  /\ cache' = close_all(cache, open_fhs).cache
  /\ open_fhs' = close_all(cache, open_fhs).open_fhs
  /\ closed' = closed \o ClosingAll(cache, open_fhs, total)
  /\ bad_fh' = IF bad_fh = "open" THEN "closed" ELSE bad_fh
  /\ pc' = IF exc = NoExc THEN "done" ELSE "raised"
  /\ UNCHANGED <<cfgvars, dir_exists, files, input, keys, last_get, total, bad, row, year, local,
                 exc, year_state, opened, badfile>>

Next ==
  \/ Start
  \/ ReadRow
  \/ GetWriterRollover
  \/ GetWriterHit
  \/ GetWriterEvict
  \/ GetWriterOpen
  \/ WriteRow
  \/ Except
  \/ EndOfInput
  \/ Finally

Spec == Init /\ [][Next]_vars

-----------------------------------------------------------------------------
(* Runs in which the file system raises I/O errors *)

\* Bound on the I/O errors of one run.
MaxFaults == 2

\* str(e) of the OSError raised by open(), write(), flush() or close().
IOErrorExc == "OSError"

\* The rows of the runs with I/O errors: two years and an unparsable key.
IORows == { <<D2020, Val>>, <<D2021>>, <<DBad, Val>> }

InitIO ==
  /\ header = <<DatetimeCol, TempCol>>
  /\ max_open \in 1..MaxOpenLimit
  /\ max_rows_per_file \in 0..MaxRowsPerFileLimit
  /\ bad_rows_csv \in BOOLEAN
  /\ input_len \in 0..MaxInputRows
  /\ source = IORows
  /\ InitRun

(* get_writer, line 65: fh.close() of the rollover raises; the entry is
   already popped and the handle is closed, the year's state is not stored *)
FailRolloverClose ==
  /\ pc = "get_writer"
  /\ faults < MaxFaults
  /\ RolloverDue(YearStateGet(year_state, year).rows_written)
  /\ InCache(cache, year)
  /\ cache' = CachePop(cache, year)
  /\ open_fhs' = open_fhs \ {CacheGet(cache, year).fh}
  /\ closed' = Append(closed, Closing(CacheGet(cache, year).fh, total, "rollover"))
  /\ last_get' = [y \in (DOMAIN last_get) \cup {year} |->
                    IF y = year THEN total ELSE last_get[y]]
  /\ faults' = faults + 1
  /\ pc' = "except"
  /\ exc' = IOErrorExc
  /\ UNCHANGED <<confvars, clean_files, run, dir_exists, files, input, keys, total, bad, row, year, local,
                 year_state, opened, bad_fh, badfile>>

(* get_writer, line 76: old_fh.close() of the eviction raises; the entry is
   already popped and the handle is closed *)
FailEvictClose ==
  /\ pc = "lookup"
  /\ faults < MaxFaults
  /\ ~InCache(cache, year)
  /\ CacheFull(cache)
  /\ Len(cache) > 0
  /\ cache' = [i \in 1..(Len(cache) - 1) |->
                 IF i < EvictIndex(cache) THEN cache[i] ELSE cache[i + 1]]
  /\ open_fhs' = open_fhs \ {cache[EvictIndex(cache)].fh}
  /\ closed' = Append(closed, Closing(cache[EvictIndex(cache)].fh, total, "evict"))
  /\ faults' = faults + 1
  /\ pc' = "except"
  /\ exc' = IOErrorExc
  /\ UNCHANGED <<confvars, clean_files, run, dir_exists, files, input, keys, last_get, total, bad, row,
                 year, local, year_state, opened, bad_fh, badfile>>

(* get_writer, line 81: open() raises; nothing is opened or registered and
   the year's state is not stored *)
FailOpen ==
  /\ pc = "lookup"
  /\ faults < MaxFaults
  /\ ~InCache(cache, year)
  /\ ~CacheFull(cache)
  /\ dir_exists' = TRUE
  /\ faults' = faults + 1
  /\ pc' = "except"
  /\ exc' = IOErrorExc
  /\ UNCHANGED <<confvars, clean_files, run, files, input, keys, last_get, total, bad, row, year, local,
                 year_state, cache, open_fhs, opened, closed, bad_fh, badfile>>

(* line 154: writer.writerow(row) raises; the row is not in the file and
   increment_row is not reached *)
FailWriteRow ==
  /\ pc = "write"
  /\ faults < MaxFaults
  /\ faults' = faults + 1
  /\ pc' = "except"
  /\ exc' = IOErrorExc
  /\ UNCHANGED <<confvars, clean_files, run, dir_exists, files, input, keys, last_get, total, bad, row,
                 year, local, year_state, cache, open_fhs, opened, closed, bad_fh,
                 badfile>>

(* lines 164 and 98-99: the k-th fh.close() of close_all raises; the handles
   up to the k-th are closed, the loop and self._cache.clear() are left, and
   bad_fh.close() at line 166 is not reached *)
FailCloseAll ==
  /\ pc = "finally"
  /\ faults < MaxFaults
  /\ \E k \in 1..Len(cache) :
       /\ open_fhs' = open_fhs \ { cache[i].fh : i \in 1..k }
       /\ closed' = closed \o [i \in 1..k |-> Closing(cache[i].fh, total, "close_all")]
  /\ faults' = faults + 1
  /\ pc' = "raised"
  /\ exc' = IOErrorExc
  /\ UNCHANGED <<confvars, clean_files, run, dir_exists, files, input, keys, last_get, total, bad, row,
                 year, local, year_state, cache, opened, bad_fh, badfile>>

NextIO ==
  \/ Next
  \/ FailRolloverClose
  \/ FailEvictClose
  \/ FailOpen
  \/ FailWriteRow
  \/ FailCloseAll

SpecIO == InitIO /\ [][NextIO]_vars

-----------------------------------------------------------------------------
(* A caller that calls close_all once more on the cache of a finished run *)

\* The run got as far as line 133: the WriterCache exists.
CacheBuilt == HasColumn(header, DatetimeCol)

(* lines 97-100, a second cache.close_all() right after the one of line 164 *)
CloseAllAgain ==
  /\ pc \in {"done", "raised"}
  /\ CacheBuilt
  /\ cache' = close_all(cache, open_fhs).cache
  /\ open_fhs' = close_all(cache, open_fhs).open_fhs
  /\ closed' = closed \o ClosingAll(cache, open_fhs, total)
  /\ pc' = "closed_again"
  /\ UNCHANGED <<cfgvars, dir_exists, files, input, keys, last_get, total, bad, row, year,
                 local, exc, year_state, opened, bad_fh, badfile>>

NextCloseAll ==
  \/ Next
  \/ CloseAllAgain

SpecCloseAll == Init /\ [][NextCloseAll]_vars

-----------------------------------------------------------------------------
(* The end-to-end run: two years interleaved around an unparsable key, one
   open writer, no rollover, a bad-rows file *)

D2020Jun == <<"2", "0", "2", "0", "-", "0", "6", "-", "0", "1">>
D2021Jan == <<"2", "0", "2", "1", "-", "0", "1", "-", "0", "1">>
D2020Dec == <<"2", "0", "2", "0", "-", "1", "2", "-", "3", "1">>

\* The data lines of the input, in order.
Scenario ==
  << <<D2020, Val>>, <<D2020Jun, Val>>, <<D2021Jan, Val>>, <<DBad, Val>>, <<D2020Dec, Val>> >>

\* The reader delivers Len(Scenario) lines, each one of the scenario's lines.
InitE2E ==
  /\ header = <<DatetimeCol, TempCol>>
  /\ max_open = 1
  /\ max_rows_per_file = 0
  /\ bad_rows_csv = TRUE
  /\ input_len = Len(Scenario)
  /\ source = { Scenario[i] : i \in 1..Len(Scenario) }
  /\ InitRun

SpecE2E == InitE2E /\ [][Next]_vars

-----------------------------------------------------------------------------
(* Runs over one datetime text under study, mixed with rows of another year *)

YearTexts == { <<"2", "0", "2", "0">>, <<"2", "0", "2", "1">>,
               <<"0", "9", "9", "9">>, <<"0", "0", "0", "0">> }

\* (month, day) texts: three dates, one of them only in leap years, and an
\* impossible one.
MonthDayTexts == { << <<"0", "1">>, <<"0", "1">> >>, << <<"0", "2">>, <<"2", "9">> >>,
                   << <<"1", "2">>, <<"3", "1">> >>, << <<"1", "3">>, <<"4", "5">> >> }

\* What follows the date: nothing, a clock time after a blank or after T, or
\* an impossible clock time.
TimeTexts ==
  [none |-> <<>>,
   blank |-> <<" ", "1", "3", ":", "3", "0", ":", "0", "0">>,
   T |-> <<"T", "1", "3", ":", "3", "0", ":", "0", "0">>,
   bad |-> <<" ", "2", "5", ":", "6", "1", ":", "0", "0">>]

DateParts ==
  [y : YearTexts, md : MonthDayTexts, sep : {"-", "/"}, time : DOMAIN TimeTexts,
   padded : BOOLEAN]

\* The datetime text with the given parts, surrounded by whitespace if padded.
DateText(c) ==
  LET t == c.y \o <<c.sep>> \o c.md[1] \o <<c.sep>> \o c.md[2] \o TimeTexts[c.time]
  IN  IF c.padded THEN <<" ">> \o t \o <<"\t", " ">> ELSE t

\* Texts that are no date at all: empty, blank, no digit prefix, too short,
\* digits followed by anything, digit characters int() rejects.
OtherTexts ==
  { <<>>, <<" ", "\t">>, DBad, <<"2", "0", "2">>, <<"2", "0", "x", "0", "-", "0", "1">>,
    <<"2", "0", "2", "0", "g", "a", "r", "b", "a", "g", "e">>,
    <<" ", "1", "2", "3", "4", "5">>,
    <<"-", "2", "0", "2", "0">>,
    <<"SUPERSCRIPT_TWO", "SUPERSCRIPT_TWO", "SUPERSCRIPT_TWO", "SUPERSCRIPT_TWO">>,
    <<"SUPERSCRIPT_TWO", "SUPERSCRIPT_TWO", "SUPERSCRIPT_TWO", "SUPERSCRIPT_TWO",
      "-", "0", "1", "-", "0", "1">>,
    <<"FULLWIDTH_TWO", "FULLWIDTH_ZERO", "FULLWIDTH_TWO", "FULLWIDTH_ZERO",
      "g", "a", "r", "b", "a", "g", "e">>,
    <<"FULLWIDTH_TWO", "FULLWIDTH_ZERO", "FULLWIDTH_TWO", "FULLWIDTH_ZERO",
      "-", "0", "1", "-", "0", "1">>,
    <<"2", "0", "2", "FULLWIDTH_ZERO">>,
    <<"2", "0", "2", "0", "-", "FULLWIDTH_ZERO", "1", "-", "0", "1">> }

ParseTexts == { DateText(c) : c \in DateParts } \cup OtherTexts

\* A row of the year 2021 with its second field missing.
OtherYearRow ==
  << DateText([y |-> <<"2", "0", "2", "1">>, md |-> << <<"0", "1">>, <<"0", "1">> >>,
               sep |-> "-", time |-> "blank", padded |-> FALSE]) >>

\* The input mixes rows of the text under study with rows of the year 2021.
InitParse ==
  /\ header = <<DatetimeCol, TempCol>>
  /\ max_open = 1
  /\ max_rows_per_file = 0
  /\ bad_rows_csv = TRUE
  /\ input_len \in 0..MaxInputRows
  /\ \E t \in ParseTexts : source = { <<t, Val>>, OtherYearRow }
  /\ InitRun

SpecParse == InitParse /\ [][Next]_vars

-----------------------------------------------------------------------------
(* Runs over rows of three years and a bad row, for every cache size from 1 *)

EvictRows == { <<D2020, Val>>, <<D2021>>, <<D2022, Val, Extra>>, <<DBad, Val>> }

InitEvict ==
  /\ header = <<DatetimeCol, TempCol>>
  /\ max_open \in 1..MaxOpenLimit
  /\ max_rows_per_file \in 0..MaxRowsPerFileLimit
  /\ bad_rows_csv \in BOOLEAN
  /\ input_len \in 0..MaxInputRows
  /\ source = EvictRows
  /\ InitRun

SpecEvict == InitEvict /\ [][Next]_vars

-----------------------------------------------------------------------------
(* The cleaning stage, run on the partition files of a finished split *)

RECURSIVE DigitRun(_, _)
\* The longest run of digits of s that starts at position from.
DigitRun(s, from) ==
  IF from <= Len(s) /\ s[from] \in DigitChars
  THEN <<s[from]>> \o DigitRun(s, from + 1) ELSE <<>>

\* re.match(r"weather_(\d{4})(?:_part_(\d+))?", base): the groups of the
\* match at the start of base; an empty part is an unmatched group 2.
NameMatch(base) ==
  IF Len(base) >= 5 /\ base[1] = "weather_" /\ AllDigits(SubSeq(base, 2, 5))
  THEN [matched |-> TRUE, year |-> SubSeq(base, 2, 5),
        part |-> IF Len(base) >= 6 /\ base[6] = "_part_" THEN DigitRun(base, 7) ELSE <<>>]
  ELSE [matched |-> FALSE, year |-> <<>>, part |-> <<>>]

\* clean_data.py, lines 9-25 and 93-100: the name of the cleaned file.
CleanName(base) ==
  LET m == NameMatch(base) IN
  <<"clean">>
  \o (IF m.matched THEN <<"_">> \o Dec(Num(m.year)) ELSE <<>>)
  \o (IF m.matched /\ Len(m.part) > 0 THEN <<"_part_">> \o Fmt02d(Num(m.part)) ELSE <<>>)
  \o <<".csv">>

(* clean_weather_data(input_csv, output_dir) on one partition file of the
   finished split *)
clean_weather_data ==
  /\ pc = "done"
  /\ \E p \in DOMAIN files \ DOMAIN clean_files :
       clean_files' = [q \in DOMAIN clean_files \cup {p} |->
                         IF q = p THEN CleanName(p) ELSE clean_files[q]]
  /\ UNCHANGED <<confvars, faults, run, pc, dir_exists, files, input, keys, last_get, total, bad,
                 row, year, local, exc, year_state, cache, open_fhs, opened, closed,
                 bad_fh, badfile>>

D0999 == <<"0", "9", "9", "9", "-", "0", "1", "-", "0", "1">>
D0000 == <<"0", "0", "0", "0", "/", "0", "1", "/", "0", "1">>

\* Rows of years of four digits and of fewer, and a bad row.
PipelineRows == { <<D2020, Val>>, <<D2021>>, <<D0999, Val>>, <<D0000, Val>>, <<DBad, Val>> }

InitPipeline ==
  /\ header = <<DatetimeCol, TempCol>>
  /\ max_open \in 1..MaxOpenLimit
  /\ max_rows_per_file \in 0..MaxRowsPerFileLimit
  /\ bad_rows_csv = FALSE
  /\ input_len \in 0..MaxInputRows
  /\ source = PipelineRows
  /\ InitRun

NextPipeline ==
  \/ Next
  \/ clean_weather_data

SpecPipeline == InitPipeline /\ [][NextPipeline]_vars

-----------------------------------------------------------------------------
(* Runs in which the header write of a new segment file can fail *)

(* get_writer, lines 81-86: open() has succeeded and writer.writeheader()
   raises; line 88 is not reached, so the open handle is in no cache entry,
   and line 90 is not reached either *)
FailWriteHeader ==
  /\ pc = "lookup"
  /\ faults < MaxFaults
  /\ ~InCache(cache, year)
  /\ ~CacheFull(cache)
  /\ HeaderDue(files, out_path(year, local.chunk_idx)) = TRUE
  /\ files' = FileTouch(files, out_path(year, local.chunk_idx))
  /\ open_fhs' = open_fhs \cup {[path |-> out_path(year, local.chunk_idx), id |-> opened + 1]}
  /\ opened' = opened + 1
  /\ dir_exists' = TRUE
  /\ faults' = faults + 1
  /\ pc' = "except"
  /\ exc' = IOErrorExc
  /\ UNCHANGED <<confvars, clean_files, run, input, keys, last_get, total, bad, row, year, local,
                 year_state, cache, closed, bad_fh, badfile>>

\* The open handles no cache entry refers to.
Unowned == { fh \in open_fhs : \A i \in 1..Len(cache) : cache[i].fh # fh }

(* CPython closes a file object when the last reference to it goes: the
   frame of the get_writer that raised holds fh, the traceback of the
   exception holds the frame, and the exception is released when the
   handler of line 156 is left normally; the handle stays open while the
   handler runs and while an exception raised inside the handler, which
   chains the first one, propagates through the finally block *)
FinalizeHandle ==
  /\ pc = "loop"
  /\ \E fh \in Unowned :
       /\ open_fhs' = open_fhs \ {fh}
       /\ closed' = Append(closed, Closing(fh, total, "finalizer"))
  /\ UNCHANGED <<cfgvars, pc, dir_exists, files, input, keys, last_get, total, bad, row, year,
                 local, exc, year_state, cache, opened, bad_fh, badfile>>

\* The next iteration of the row loop starts after the finalization.
NextLeak ==
  \/ NextIO /\ (pc = "loop" => Unowned = {})
  \/ FailWriteHeader
  \/ FinalizeHandle

SpecLeak == InitIO /\ [][NextLeak]_vars

-----------------------------------------------------------------------------
(* A second run of split_csv_by_year into the output directory of a first *)

\* Bound on the runs into one output directory.
MaxRuns == 2

\* A line of a file left by an earlier run: the same fields, marked with a
\* negative id; the lines of the current run carry the row numbers 1, 2, ...
EarlierLine(l) == [id |-> IF l.id > 0 THEN 0 - l.id ELSE l.id, fields |-> l.fields]

(* split_csv_by_year is called again with the same arguments after the
   earlier call has returned: lines 110-140 start from fresh counters and a
   fresh WriterCache, the output directory is as the earlier run left it *)
Restart ==
  /\ pc = "done"
  /\ run < MaxRuns
  /\ run' = run + 1
  /\ files' = [p \in DOMAIN files |-> [i \in 1..Len(files[p]) |-> EarlierLine(files[p][i])]]
  /\ pc' = "start"
  /\ input' = <<>>
  /\ keys' = <<>>
  /\ last_get' = <<>>
  /\ total' = 0
  /\ bad' = 0
  /\ row' = NoRow
  /\ year' = NoYear
  /\ local' = NoLocal
  /\ exc' = NoExc
  /\ year_state' = <<>>
  /\ cache' = <<>>
  /\ open_fhs' = {}
  /\ opened' = 0
  /\ closed' = <<>>
  /\ bad_fh' = "none"
  /\ badfile' = <<>>
  /\ UNCHANGED <<confvars, faults, clean_files, dir_exists>>

RestartRows == { <<D2020, Val>>, <<D2021>>, <<DBad, Val>> }

InitRestart ==
  /\ header = <<DatetimeCol, TempCol>>
  /\ max_open = 1
  /\ max_rows_per_file \in 0..MaxRowsPerFileLimit
  /\ bad_rows_csv = FALSE
  /\ input_len \in 0..MaxInputRows
  /\ source = RestartRows
  /\ InitRun

NextRestart ==
  \/ Next
  \/ Restart

SpecRestart == InitRestart /\ [][NextRestart]_vars

-----------------------------------------------------------------------------
(* Runs with rollover in which I/O errors are raised and another process
   removes or empties segment files the run has closed *)

\* The segment files no handle of the run is open on.
ClosedPaths == { p \in DOMAIN files : \A fh \in open_fhs : fh.path # p }

(* What lines 80 and 85 may find at out_path: another process has removed
   the file (os.path.exists is false) or emptied it (getsize is 0) *)
ExternalRemove ==
  /\ pc = "loop"
  /\ faults < MaxFaults
  /\ \E p \in ClosedPaths :
       \/ files' = [q \in DOMAIN files \ {p} |-> files[q]]
       \/ Len(files[p]) > 0 /\ files' = [q \in DOMAIN files |-> IF q = p THEN <<>> ELSE files[q]]
  /\ faults' = faults + 1
  /\ UNCHANGED <<confvars, clean_files, run, pc, dir_exists, input, keys, last_get, total, bad,
                 row, year, local, exc, year_state, cache, open_fhs, opened, closed, bad_fh,
                 badfile>>

SegmentRows == { <<D2020, Val>>, <<D2021>> }

InitSegments ==
  /\ header = <<DatetimeCol, TempCol>>
  /\ max_open \in 0..1
  /\ max_rows_per_file \in 1..MaxRowsPerFileLimit
  /\ bad_rows_csv = FALSE
  /\ input_len \in 0..MaxInputRows
  /\ source = SegmentRows
  /\ InitRun

NextSegments ==
  \/ NextIO
  \/ ExternalRemove

SpecSegments == InitSegments /\ [][NextSegments]_vars

(* Runs with any --max-open: argparse takes every int (line 182, type=int),
   and WriterCache stores it as it is (line 48) *)

\* How far below zero --max-open is taken.
MaxBelowZero == 1

LoopRows == { <<D2020, Val>>, <<D2021>>, <<D2022, Val, Extra>> }

InitLoop ==
  /\ header = <<DatetimeCol, TempCol>>
  /\ max_open \in (0 - MaxBelowZero)..MaxOpenLimit
  /\ max_rows_per_file \in 0..1
  /\ bad_rows_csv \in BOOLEAN
  /\ input_len \in 0..MaxInputRows
  /\ source = LoopRows
  /\ InitRun

SpecLoop == InitLoop /\ [][Next]_vars

------------------------------------------------------------------------------
TypeOK ==
  /\ pc \in {"start", "loop", "get_writer", "lookup", "write", "except",
             "finally", "done", "raised", "closed_again"}
  /\ total = Len(input)
  /\ total <= input_len

-----------------------------------------------------------------------------
(* What the output directory holds, and what the input asks for *)

Range(s) == { s[i] : i \in 1..Len(s) }

\* The data lines (not headers) of a file, top to bottom.
DataLines(lines) == SelectSeq(lines, LAMBDA l : l.id # 0)

HeaderCount(lines) == Len(SelectSeq(lines, LAMBDA l : l.id = 0))

\* Lines of the file at path, none when the file is absent.
FileLines(path) == IF path \in DOMAIN files THEN files[path] ELSE <<>>

RECURSIVE YearData(_, _)
\* Data lines of the year's segments 0..n, in segment order.
YearData(yr, n) ==
  IF n < 0 THEN <<>>
  ELSE YearData(yr, n - 1) \o DataLines(FileLines(out_path(yr, n)))

\* Number of rows whose iteration of the row loop is over.
Handled == IF pc \in {"get_writer", "lookup", "write", "except"} THEN total - 1 ELSE total

\* The year parse_year returned for the i-th input row; NoYear when it failed.
KeyOf(i) == keys[i]

RECURSIVE RowsOfYear(_, _)
\* The lines the first n input rows ask for in the year's output, in input order.
RowsOfYear(yr, n) ==
  IF n = 0 THEN <<>>
  ELSE RowsOfYear(yr, n - 1) \o
       (IF KeyOf(n) = yr THEN <<PartitionLine(n, DictRow(header, input[n]))>> ELSE <<>>)

\* Segment indexes of the year that exist as files.
Segments(yr) == { n \in 0..total : out_path(yr, n) \in DOMAIN files }

\* A file of year A took a row, then a file of another year did, then the
\* file of year A took a further row: with max_open = 1 year A was evicted
\* and reopened in between.
ReopenedAfterEviction ==
  /\ max_open = 1
  /\ \E p \in DOMAIN files, q \in DOMAIN files :
       /\ p # q
       /\ \E i \in 1..Len(files[p]), j \in 1..Len(files[p]), k \in 1..Len(files[q]) :
            /\ files[p][i].id > 0
            /\ files[p][i].id < files[q][k].id
            /\ files[q][k].id < files[p][j].id

-----------------------------------------------------------------------------
(* C1: with max_open >= 1, in every reachable state, the states inside a
   rollover and between an eviction and the following open included, at most
   max_open partition file handles are open. *)
C1_OpenHandlesBounded ==
  max_open >= 1 => Cardinality(open_fhs) <= max_open

\* get_writer has just opened a file into a full cache with rollover
\* disabled: an entry was evicted to make room for it.
C1_Witness ==
  /\ max_open >= 1
  /\ max_rows_per_file = 0
  /\ Cardinality(open_fhs) = max_open
  /\ opened > max_open
  /\ pc = "write"
  /\ CacheGet(cache, year).fh.id = opened

(* C2: every segment file holds exactly one header line and it is the first
   line, also after the file was reopened following an eviction. *)
C2_OneHeaderFirst ==
  \A p \in DOMAIN files :
    /\ Len(files[p]) >= 1
    /\ files[p][1] = HeaderLine(header)
    /\ HeaderCount(files[p]) = 1

C2_Witness == ReopenedAfterEviction /\ pc = "done"

(* C3: with max_open >= 1, for every year the data rows of its segments, read
   in segment order and top to bottom, are exactly the rows of that year that
   the router has handled, in input order. *)
C3_OrderPreserved ==
  max_open >= 1 =>
    \A yr \in Years : YearData(yr, total) = RowsOfYear(yr, Handled)

\* A year whose rows span two segments, with another year in between and a
\* cache of one entry.
C3_Witness ==
  /\ pc = "done"
  /\ max_open = 1
  /\ max_rows_per_file = 2
  /\ \E yr \in Years, other \in Years :
       /\ other # yr
       /\ Len(RowsOfYear(yr, total)) = 3
       /\ Len(RowsOfYear(other, total)) > 0
       /\ RowsOfYear(other, total)[1].id < RowsOfYear(yr, total)[2].id
       /\ RowsOfYear(other, total)[1].id > RowsOfYear(yr, total)[1].id


RECURSIVE SumDataRows(_)
\* Number of data lines in the files at the given paths.
SumDataRows(paths) ==
  IF paths = {} THEN 0
  ELSE LET p == CHOOSE q \in paths : TRUE
       IN  Len(DataLines(files[p])) + SumDataRows(paths \ {p})

\* The ids of the data lines of all partition files.
WrittenIds == UNION { { l.id : l \in Range(DataLines(files[p])) } : p \in DOMAIN files }

\* The years among the rows read.
YearsRead == Range(keys) \ {NoYear}

\* The run is over: split_csv_by_year has returned or raised.
Ended == pc \in {"done", "raised"}

\* Between two rows of the loop, or after it.
BetweenRows == pc \in {"loop", "finally", "done", "raised"}

(* C4: for an input of N rows over more than max_open years, at the end of
   the run the partition files hold N minus the bad-row count data rows, no
   row twice, and every row of a file belongs to the year of the file. *)
C4_EveryRowInOnePlace ==
  (Ended /\ max_open >= 1 /\ Cardinality(YearsRead) > max_open) =>
    /\ SumDataRows(DOMAIN files) = input_len - bad
    /\ Cardinality(WrittenIds) = SumDataRows(DOMAIN files)
    /\ \A p \in DOMAIN files :
         \E yr \in Years, n \in 0..total :
           /\ p = out_path(yr, n)
           /\ \A l \in Range(DataLines(files[p])) : KeyOf(l.id) = yr

\* The same accounting for the runs that return normally: there it holds.
C4_HoldsWhenRunReturns ==
  (pc = "done" /\ Cardinality(YearsRead) > max_open) =>
    /\ total = input_len
    /\ SumDataRows(DOMAIN files) = input_len - bad
    /\ Cardinality(WrittenIds) = SumDataRows(DOMAIN files)
    /\ \A p \in DOMAIN files :
         \E yr \in Years, n \in 0..total :
           /\ p = out_path(yr, n)
           /\ \A l \in Range(DataLines(files[p])) : KeyOf(l.id) = yr

CeilDiv(m, r) == (m + r - 1) \div r

(* C5: with max_rows_per_file = R >= 1 and max_open >= 1, between rows and at
   the end of the run, a year that has received M > R rows has exactly the
   segments 0 .. ceil(M/R)-1; each but the last holds R data rows, the last
   holds the remaining M - R*(ceil(M/R)-1), and each holds one header. *)
C5_SegmentsOfYear ==
  (BetweenRows /\ max_rows_per_file >= 1 /\ max_open >= 1) =>
    \A yr \in Years :
      LET M == Len(RowsOfYear(yr, total))
          R == max_rows_per_file
          c == CeilDiv(M, R)
      IN  M > R =>
            /\ Segments(yr) = 0..(c - 1)
            /\ \A n \in 0..(c - 2) : Len(DataLines(FileLines(out_path(yr, n)))) = R
            /\ Len(DataLines(FileLines(out_path(yr, c - 1)))) = M - R * (c - 1)
            /\ M - R * (c - 1) \in 1..R
            /\ \A n \in 0..(c - 1) : HeaderCount(FileLines(out_path(yr, n))) = 1

\* A year with three rows and R = 2 (a last segment that is not full), next
\* to another year, at the end of a run.
C5_Witness ==
  /\ pc = "done"
  /\ max_rows_per_file = 2
  /\ max_open >= 1
  /\ \E yr \in Years : Len(RowsOfYear(yr, total)) = 3
  /\ Cardinality(YearsRead) = 2

(* C6: with max_rows_per_file = R >= 1 the rows_written of every year in
   _year_state is <= R in every reachable state, and in every step a year's
   rows_written falls (to 0) exactly when its chunk_idx grows (by one). *)
C6_CounterWithinBudget ==
  /\ [](max_rows_per_file >= 1 =>
          \A yr \in DOMAIN year_state : year_state[yr].rows_written <= max_rows_per_file)
  /\ [][max_rows_per_file >= 1 =>
          \A yr \in DOMAIN year_state :
            /\ yr \in DOMAIN year_state'
            /\ (year_state'[yr].chunk_idx # year_state[yr].chunk_idx
                  <=> year_state'[yr].rows_written < year_state[yr].rows_written)
            /\ (year_state'[yr].chunk_idx # year_state[yr].chunk_idx =>
                  /\ year_state'[yr].chunk_idx = year_state[yr].chunk_idx + 1
                  /\ year_state'[yr].rows_written = 0)]_vars

\* A year whose counter is back at 0 in its second segment after a full first.
C6_Witness ==
  /\ max_rows_per_file = 2
  /\ pc = "write"
  /\ year \in DOMAIN year_state
  /\ year_state[year] = [rows_written |-> 0, chunk_idx |-> 1]

\* <NN> of the file names: the two decimal digits of n.
TwoDigit(n) == <<DigitChar((n \div 10) % 10), DigitChar(n % 10)>>

(* C7: the path get_writer returns a writer for is weather_<y>_part_<NN>.csv
   when rollover is enabled and weather_<y>.csv when it is disabled. *)
C7_PathFormat ==
  pc = "write" =>
    CacheGet(cache, year).fh.path =
      IF max_rows_per_file = 0
      THEN <<"weather_">> \o Dec(year) \o <<".csv">>
      ELSE <<"weather_">> \o Dec(year) \o <<"_part_">>
             \o TwoDigit(year_state[year].chunk_idx) \o <<".csv">>

\* The half of C7 that the code keeps: the name with rollover enabled.
C7_PartSuffixWhenRollover ==
  (pc = "write" /\ max_rows_per_file # 0) =>
    CacheGet(cache, year).fh.path =
      <<"weather_">> \o Dec(year) \o <<"_part_">>
        \o TwoDigit(year_state[year].chunk_idx) \o <<".csv">>

\* The years whose entry the step removes from the cache.
Removed == { cache[i].year : i \in 1..Len(cache) } \ { cache'[i].year : i \in 1..Len(cache') }

(* C8: with max_open >= 1, outside the final close_all a step removes a cache
   entry only as the rollover of the requested year or as an eviction; an
   eviction happens only for a year that is not open with exactly max_open
   entries open, removes exactly one entry, and that entry's latest
   get_writer call is older than that of every other open entry; and when
   get_writer returns, the requested year is the most recently used entry. *)
C8_StrictLRU ==
  /\ [][(max_open >= 1 /\ pc # "finally" /\ Removed # {}) =>
          \/ pc = "get_writer" /\ Removed = {year}
          \/ /\ pc = "lookup"
             /\ ~InCache(cache, year)
             /\ Len(cache) = max_open
             /\ Cardinality(Removed) = 1
             /\ \A i \in 1..Len(cache) :
                  cache[i].year \notin Removed =>
                    /\ \E j \in 1..Len(cache') : cache'[j] = cache[i]
                    /\ \A yr \in Removed : last_get[yr] < last_get[cache[i].year]]_vars
  /\ []((max_open >= 1 /\ pc = "write") =>
          /\ cache[Len(cache)].year = year
          /\ \A i \in 1..Len(cache) : last_get[cache[i].year] <= last_get[year])

\* Two entries were opened, the second was evicted and the first is still
\* open: the first was used again after the second was opened.
C8_Witness ==
  /\ pc = "lookup"
  /\ max_open = 2
  /\ max_rows_per_file = 0
  /\ ~InCache(cache, year)
  /\ opened = 2
  /\ Len(cache) = 1
  /\ cache[1].fh.id = 1

(* C9: when the header lacks the partition column the run fails in its first
   step, before any row is read, and creates or changes no partition file, no
   bad-rows file and no output directory. *)
C9_NothingTouchedOnMissingColumn ==
  [][(pc = "start" /\ Len(header) > 0 /\ DatetimeCol \notin Range(header)) =>
       /\ pc' = "raised"
       /\ total' = 0
       /\ files' = files
       /\ bad_fh' = "none"
       /\ badfile' = badfile
       /\ dir_exists' = dir_exists]_vars

\* The part of C9 that the code keeps: no row is read and no file is made.
C9_NoFileOnMissingColumn ==
  (pc # "start" /\ Len(header) > 0 /\ DatetimeCol \notin Range(header)) =>
    /\ pc = "raised"
    /\ total = 0
    /\ files = <<>>
    /\ bad_fh = "none"
    /\ badfile = <<>>

(* C10: every row whose key does not parse is written once to the bad-rows
   file when one is configured, and never ends the run: the router reads
   every row of the input. *)
C10_BadRowNeverFatal ==
  /\ \A i \in 1..Handled :
       (KeyOf(i) = NoYear /\ bad_rows_csv) =>
         Cardinality({ j \in 1..Len(badfile) : badfile[j].id = i }) = 1
  /\ (Ended /\ HasColumn(header, DatetimeCol)) => total = input_len

\* The parts of C10 that the code keeps: the handler counts the row once and
\* leaves the partition files and the cache alone.
C10_BadRowLeavesCacheAlone ==
  [][pc = "except" =>
       /\ bad' = bad + 1
       /\ UNCHANGED <<files, cache, open_fhs, year_state, last_get, total>>]_vars


(* C11: an I/O error raised while the cache opens, writes or closes a
   partition file for a row leaves the row loop: the row is not counted as a
   bad row, is not written to the bad-rows file, and no later row is read. *)
C11_IOErrorAborts ==
  [][(pc = "except" /\ exc = IOErrorExc) =>
       /\ bad' = bad
       /\ badfile' = badfile
       /\ pc' = "finally"]_vars

(* C12: once the cache exists, when split_csv_by_year has returned or raised,
   no partition handle is open, the cache is empty, no handle was closed
   twice and the bad-rows handle is closed. *)
C12_TeardownOnEveryExit ==
  (Ended /\ HasColumn(header, DatetimeCol)) =>
    /\ open_fhs = {}
    /\ cache = <<>>
    /\ bad_fh # "open"
    /\ \A i \in 1..Len(closed), j \in 1..Len(closed) :
         closed[i].fh = closed[j].fh => i = j

(* C13: close_all is idempotent.  The close_all of a run that built its cache
   calls close() on every handle that was open, once each, and leaves no
   open handle and an empty cache; a second close_all right after it calls
   close() on nothing and leaves the cache, the open handles and the
   per-year rows and segment indexes as the first call left them. *)
C13_CloseAllIdempotent ==
  [][/\ (pc = "finally" /\ pc' \in {"done", "raised"}) =>
          /\ cache' = <<>>
          /\ open_fhs' = {}
          /\ year_state' = year_state
          /\ Len(closed') = Len(closed) + Cardinality(open_fhs)
          /\ \A fh \in open_fhs :
               \E i \in (Len(closed) + 1)..Len(closed') : closed'[i].fh = fh
     /\ (pc \in {"done", "raised"} /\ pc' = "closed_again") =>
          /\ closed' = closed
          /\ cache' = cache
          /\ open_fhs' = open_fhs
          /\ year_state' = year_state
          /\ files' = files]_vars

\* The second close_all has run after a first one that closed two handles.
C13_Witness ==
  /\ pc = "closed_again"
  /\ Len(closed) >= 2
  /\ closed[Len(closed)].by = "close_all"
  /\ closed[Len(closed) - 1].by = "close_all"
  /\ DOMAIN year_state # {}

\* The line the i-th scenario row becomes in its year's file.
ScenarioLine(i) == PartitionLine(i, DictRow(header, Scenario[i]))

\* The close() calls that evicted a handle of the year's first segment.
EvictionsOf(yr) ==
  SelectSeq(closed, LAMBDA c : c.by = "evict" /\ c.fh.path = out_path(yr, 0))

(* C14: the end-to-end scenario.  When the run over the rows 2020-01-01,
   2020-06-01, 2021-01-01, bad-value, 2020-12-31 (max_open = 1, no rollover,
   empty output directory, bad-rows file) returns: the 2020 file is one
   header and the three 2020 rows in input order, the 2021 file is one
   header and the 2021 row, the bad-rows file is its header and the
   bad-value row with a failure reason, the 2020 writer was evicted exactly
   once, while the 2021 row (the third) was being routed, and three handles
   were opened in all, the third on the existing 2020 file, which took the
   last row without a second header. *)
C14_EndToEnd ==
  (input = Scenario /\ pc = "done") =>
    /\ DOMAIN files = {out_path(2020, 0), out_path(2021, 0)}
    /\ files[out_path(2020, 0)] =
         <<HeaderLine(header), ScenarioLine(1), ScenarioLine(2), ScenarioLine(5)>>
    /\ files[out_path(2021, 0)] = <<HeaderLine(header), ScenarioLine(3)>>
    /\ bad = 1
    /\ Len(badfile) = 2
    /\ badfile[1] = HeaderLine(header \o <<ErrorCol>>)
    /\ badfile[2].id = 4
    /\ Len(badfile[2].fields) = Len(header) + 1
    /\ SubSeq(badfile[2].fields, 1, Len(header)) = Scenario[4]
    /\ badfile[2].fields[Len(header) + 1] \notin { <<NoExc>>, <<>> }
    /\ Len(EvictionsOf(2020)) = 1
    /\ EvictionsOf(2020)[1].at = 3
    /\ EvictionsOf(2020)[1].fh.id = 1
    /\ opened = 3
    /\ closed[Len(closed)] =
         Closing([path |-> out_path(2020, 0), id |-> 3], Len(Scenario), "close_all")

\* The scenario has run to its end.
C14_Witness ==
  /\ input = Scenario
  /\ pc = "done"
  /\ total = Len(Scenario)
  /\ bad = 1

\* The parts make a text of one of the five documented formats, with a
\* valid date.
Documented(c) ==
  /\ ValidDate(Num(c.y), Num(c.md[1]), Num(c.md[2]))
  /\ c.time \in {"none", "blank", "T"}
  /\ c.sep = "/" => c.time # "T"

\* The first attempt, in the order of the code, that accepts the format.
ExpectedAttempt(c) ==
  IF c.sep = "-" THEN "fromisoformat"
  ELSE IF c.time = "blank" THEN "%Y/%m/%d %H:%M:%S" ELSE "%Y/%m/%d"

\* (text, value of its YYYY field, attempt) of every documented text.
DocumentedCases ==
  { <<DateText(c), Num(c.y), ExpectedAttempt(c)>> : c \in { d \in DateParts : Documented(d) } }

(* C15: for every row read whose datetime text, whitespace around it or not,
   is of one of the five documented formats with a valid date, parse_year
   returned the integer value of the YYYY field, and the attempt that
   returned is the first in the code's order that accepts the text:
   fromisoformat for the three formats with "-", the third and the fourth
   strptime format for the two with "/". *)
C15_DocumentedFormatsParse ==
  \A i \in 1..Len(input) : \A e \in DocumentedCases :
    input[i][1] = e[1] =>
      /\ keys[i] = e[2]
      /\ parse_year(input[i][1]) = Ok(e[2])
      /\ parse_year_attempt(input[i][1]) = e[3]

\* A padded YYYY/MM/DD HH:MM:SS text of the year 999 was read and routed.
C15_Witness ==
  /\ pc = "done"
  /\ \E i \in 1..Len(input) :
       /\ input[i][1] = DateText([y |-> <<"0", "9", "9", "9">>,
                                  md |-> << <<"1", "2">>, <<"3", "1">> >>,
                                  sep |-> "/", time |-> "blank", padded |-> TRUE])
       /\ keys[i] = 999
       /\ out_path(999, 0) \in DOMAIN files

\* The text is of one of the five documented formats, with a valid date.
IsDocumented(t) == \E e \in DocumentedCases : t = e[1]

\* Rows read so far whose key did not parse.
FailedRows == { i \in 1..Len(input) : keys[i] = NoYear }

(* C16, as stated: parse_year fails for every text that is of none of the
   five documented formats.  Violated by a four-digit prefix followed by
   anything: lines 39-40 return the prefix. *)
C16_MalformedFails ==
  \A i \in 1..Len(input) : ~IsDocumented(input[i][1]) => keys[i] = NoYear

(* C16, amended: parse_year fails exactly for the texts whose first four
   characters after trimming are not four digits int() accepts (the empty
   and the blank text among them), and the row is then counted as a bad
   row; a text with four such digits in front never fails: when no format
   accepts it, whatever follows the digits, their value is returned. *)
C16_FailsIffNoDigitPrefix ==
  /\ \A i \in 1..Len(input) :
       LET s == Strip(input[i][1]) IN
       IF Len(s) >= 4 /\ IntAccepts(SubSeq(s, 1, 4))
       THEN /\ keys[i] # NoYear
            /\ parse_year_attempt(input[i][1]) = "prefix" => keys[i] = Num(SubSeq(s, 1, 4))
            /\ (~IsDocumented(input[i][1]) /\ AllDigits(SubSeq(s, 1, 4))) =>
                 parse_year_attempt(input[i][1]) = "prefix"
       ELSE keys[i] = NoYear
  /\ pc \in {"loop", "finally", "done"} => bad = Cardinality(FailedRows)

\* A text with a letter among its first four characters was read, failed to
\* parse and went to the bad-rows file.
C16_Witness ==
  /\ pc = "done"
  /\ bad >= 1
  /\ \E i \in 1..Len(input) :
       /\ input[i][1] = <<"2", "0", "x", "0", "-", "0", "1">>
       /\ keys[i] = NoYear
       /\ \E j \in 1..Len(badfile) : badfile[j].id = i

\* The fields the i-th input row has under the header's columns, missing
\* ones empty, extra ones left out.
FieldsUnderHeader(i) ==
  [k \in 1..Len(header) |-> IF k <= Len(input[i]) THEN input[i][k] ELSE <<>>]

\* The bad-rows file is its header and one line per counted bad row, in input
\* order, each the row's fields and a failure reason.
BadFileMatchesCount ==
  /\ Len(badfile) = bad + 1
  /\ badfile[1] = HeaderLine(header \o <<ErrorCol>>)
  /\ \A j \in 2..Len(badfile) :
       /\ badfile[j].id \in 1..total
       /\ j > 2 => badfile[j - 1].id < badfile[j].id
       /\ Len(badfile[j].fields) = Len(header) + 1
       /\ SubSeq(badfile[j].fields, 1, Len(header)) = FieldsUnderHeader(badfile[j].id)
       /\ badfile[j].fields[Len(header) + 1] \notin { <<NoExc>>, <<>> }

(* C17: with a bad-rows file configured, after a run the file is one header
   line (the input header and _error) and one data line per row counted as
   bad, in input order, each with the row's fields and a non-empty reason;
   the number of data lines equals the bad-row count. *)
C17_BadFileMatchesCount ==
  (Ended /\ CacheBuilt /\ bad_rows_csv) => BadFileMatchesCount

\* The same for the runs that return and report the count: there it holds.
C17_HoldsWhenRunReturns ==
  (pc = "done" /\ bad_rows_csv) => BadFileMatchesCount

\* The i-th input row has more or fewer fields than the header.
FieldCountDiffers(i) == Len(input[i]) # Len(header)

(* C18: a row with more or fewer fields than the header never ends the run:
   the step that finishes such a row, written to its year's file or handled
   as a bad row, sink or no sink, returns to the row loop; and every line
   of a partition file has the header's fields, missing ones empty, extra
   ones left out. *)
C18_FieldCountNeverFatal ==
  /\ [][(pc \in {"write", "except"} /\ FieldCountDiffers(total)) => pc' = "loop"]_vars
  /\ [](\A p \in DOMAIN files : \A l \in Range(DataLines(files[p])) :
          l.fields = FieldsUnderHeader(l.id))

\* What the code keeps of C18: rows whose key parses are written whatever
\* their field count, and without a sink no row ends the run.
C18_HoldsForParsedOrNoSink ==
  /\ [][(pc = "write" /\ FieldCountDiffers(total)) => pc' = "loop"]_vars
  /\ [][(pc = "except" /\ ~bad_rows_csv) => pc' = "loop"]_vars
  /\ [](\A p \in DOMAIN files : \A l \in Range(DataLines(files[p])) :
          l.fields = FieldsUnderHeader(l.id))

\* The segment index the k-th row of a year (k from 1) belongs to, from the
\* rollover setting alone.
SegmentOf(k) == IF max_rows_per_file = 0 THEN 0 ELSE (k - 1) \div max_rows_per_file

\* The file of segment n of the year after the first upto rows of the input,
\* from the input, the header and the rollover setting alone: the header,
\* then the year's rows of that segment in input order.
ExpectedFile(yr, n, upto) ==
  LET lines == RowsOfYear(yr, upto)
      idx == { k \in 1..Len(lines) : SegmentOf(k) = n }
  IN  <<HeaderLine(header)>> \o
      SelectSeq(lines, LAMBDA l : \E k \in idx : lines[k] = l)

\* The paths of the output after the first upto rows, from the input alone.
ExpectedPaths(upto) ==
  { out_path(keys[i], SegmentOf(Len(RowsOfYear(keys[i], i)))) :
      i \in { j \in 1..upto : keys[j] # NoYear } }

\* Some handle was evicted during the run.
Evicted == \E i \in 1..Len(closed) : closed[i].by = "evict"

(* C19: eviction is invisible in the output.  For every max_open >= 1,
   between rows and at the end of a run into an empty output location, the
   set of partition files and the line sequence of each file are what the
   input read so far, the header and the rollover setting determine alone,
   whether handles were evicted or not. *)
C19_OutputIndependentOfMaxOpen ==
  (BetweenRows /\ CacheBuilt /\ max_open >= 1) =>
    /\ DOMAIN files = ExpectedPaths(total)
    /\ \A yr \in YearsRead : \A n \in 0..total :
         out_path(yr, n) \in DOMAIN files =>
           files[out_path(yr, n)] = ExpectedFile(yr, n, total)

\* A run with max_open = 1 that evicted, reopened a file and has ended with
\* two rows in it.
C19_Witness ==
  /\ pc = "done"
  /\ max_open = 1
  /\ Evicted
  /\ ReopenedAfterEviction
  /\ \E p \in DOMAIN files : Len(DataLines(files[p])) >= 2

\* A run of the same kind with max_open = 2 over two years: no eviction.
C19_NoEvictionRun ==
  /\ pc = "done"
  /\ max_open = 2
  /\ ~Evicted
  /\ Cardinality(YearsRead) = 2
  /\ total = MaxInputRows

\* clean_<y>_part_<NN>.csv
CleanNameFor(yr, n) ==
  <<"clean", "_">> \o Dec(yr) \o <<"_part_">> \o Fmt02d(n) \o <<".csv">>

(* C20: every partition file the cleaning stage has processed, the file of
   year y and segment n, got the name clean_<y>_part_<NN>.csv of the same
   year and segment, and no two partition files got the same name. *)
C20_CleanNamesMatch ==
  /\ \A p \in DOMAIN clean_files :
       \A yr \in YearsRead : \A n \in 0..total :
         p = out_path(yr, n) => clean_files[p] = CleanNameFor(yr, n)
  /\ \A p \in DOMAIN clean_files : \A q \in DOMAIN clean_files :
       clean_files[p] = clean_files[q] => p = q

\* What the code keeps of C20: the files of the years 1000 to 9999.
C20_HoldsForFourDigitYears ==
  \A p \in DOMAIN clean_files :
    \A yr \in YearsRead : \A n \in 0..total :
      (p = out_path(yr, n) /\ yr >= 1000) => clean_files[p] = CleanNameFor(yr, n)

\* The open handles on segment files of the year.
OpenHandlesOf(yr) ==
  { fh \in open_fhs : \E n \in 0..total : fh.path = out_path(yr, n) }

(* C21: in every state each year has at most one open handle, and the cache
   entry of a year is bound to the segment file of the year's stored
   segment index; a step that opens a segment file of a year is taken only
   when no handle of that year is open, so the handle of the segment
   rolled over from is closed and out of the cache before the next segment
   is opened. *)
C21_OneOpenSegmentPerYear ==
  /\ [](\A yr \in YearsRead : Cardinality(OpenHandlesOf(yr)) <= 1)
  /\ [](\A i \in 1..Len(cache) :
          cache[i].fh.path =
            out_path(cache[i].year, YearStateGet(year_state, cache[i].year).chunk_idx))
  /\ [][opened' # opened =>
          /\ OpenHandlesOf(year) = {}
          /\ ~InCache(cache, year)
          /\ Cardinality(OpenHandlesOf(year)') = 1]_vars

\* The handle of segment 0 of a year was closed by a rollover and the
\* year's segment 1 is open.
C21_Witness ==
  \E yr \in YearsRead :
    /\ \E i \in 1..Len(closed) :
         closed[i].by = "rollover" /\ closed[i].fh.path = out_path(yr, 0)
    /\ \E fh \in open_fhs : fh.path = out_path(yr, 1)
    /\ InCache(cache, yr)

(* C22: every open partition handle is owned by the cache: in every state
   each open handle is the handle of exactly one cache entry, also after a
   get_writer that raised between open() and the registration of the
   entry, and after an eviction or rollover whose close raised. *)
C22_OpenHandlesOwnedByCache ==
  \A fh \in open_fhs : Cardinality({ i \in 1..Len(cache) : cache[i].fh = fh }) = 1

\* The lines of a file that an earlier run wrote, and those of this run.
EarlierLines(lines) == SelectSeq(lines, LAMBDA l : l.id < 0)
NewLines(lines) == SelectSeq(lines, LAMBDA l : l.id > 0)

(* C23: exactly one header across restart.  In every state of a second run
   into the output directory of a first run with the same header, every
   segment file is one header line followed by the rows of the first run
   and then the rows the second run has appended; and a step of the second
   run adds a header line only to a file that was absent or empty. *)
C23_OneHeaderAcrossRestart ==
  /\ [](run = 2 =>
          \A p \in DOMAIN files :
            files[p] = <<HeaderLine(header)>> \o EarlierLines(files[p]) \o NewLines(files[p]))
  /\ [][(run = 2 /\ run' = 2) =>
          \A p \in DOMAIN files' :
            (p \in DOMAIN files /\ Len(files[p]) > 0) =>
              HeaderCount(files'[p]) = HeaderCount(files[p])]_vars

\* The second run has appended a row to a segment file of the first run.
C23_Witness ==
  /\ run = 2
  /\ pc = "done"
  /\ \E p \in DOMAIN files :
       /\ Len(EarlierLines(files[p])) >= 1
       /\ Len(NewLines(files[p])) >= 1
       /\ HeaderCount(files[p]) = 1

(* C24: with max_rows_per_file = R >= 1 no segment file holds more than R
   data rows, in the first run and in a run that starts in an output
   directory whose segment files hold rows of an earlier run. *)
C24_SegmentWithinBudget ==
  max_rows_per_file >= 1 =>
    \A p \in DOMAIN files : Len(DataLines(files[p])) <= max_rows_per_file

\* What the code keeps of C24: the rows one run appends to a segment file.
C24_HoldsPerRun ==
  max_rows_per_file >= 1 =>
    \A p \in DOMAIN files : Len(NewLines(files[p])) <= max_rows_per_file

\* The handles opened so far in the run, open or closed.
HandlesOpened == open_fhs \cup { closed[i].fh : i \in 1..Len(closed) }

\* The segment indexes of the year that a handle was opened on so far.
IndexesOpened(yr) ==
  { n \in 0..total : \E fh \in HandlesOpened : fh.path = out_path(yr, n) }

(* C25: within a run the stored segment index of a year starts at 0, never
   decreases and changes only by 1, in the get_writer step that stores the
   state after a rollover that was due; every step that closes a handle
   (eviction, rollover, close_all) leaves the stored states alone; and a
   step that opens a segment file opens the index get_writer worked out,
   which is at least the stored index and at least every index opened for
   that year before, whatever I/O errors were raised and whatever files
   another process removed or emptied. *)
C25_SegmentIndexMonotonic ==
  /\ [][\A yr \in DOMAIN year_state' :
          IF yr \in DOMAIN year_state
          THEN \/ year_state'[yr].chunk_idx = year_state[yr].chunk_idx
               \/ /\ year_state'[yr].chunk_idx = year_state[yr].chunk_idx + 1
                  /\ RolloverDue(year_state[yr].rows_written)
                  /\ yr = year /\ pc = "lookup" /\ pc' = "write"
          ELSE year_state'[yr].chunk_idx = 0]_vars
  /\ [][closed' # closed => year_state' = year_state]_vars
  /\ [][opened' # opened =>
          /\ \E fh \in open_fhs' \ open_fhs : fh.path = out_path(year, local.chunk_idx)
          /\ local.chunk_idx >= YearStateGet(year_state, year).chunk_idx
          /\ \A n \in IndexesOpened(year) : n <= local.chunk_idx
          /\ year_state'[year].chunk_idx = local.chunk_idx]_vars

\* A year is at segment 1 after I/O errors, its segment 0 is gone from the
\* directory, and the run has ended.
C25_Witness ==
  /\ pc = "done"
  /\ faults >= 1
  /\ bad >= 1
  /\ \E yr \in DOMAIN year_state :
       /\ year_state[yr].chunk_idx = 1
       /\ out_path(yr, 0) \notin DOMAIN files
       /\ IndexesOpened(yr) = {0, 1}

\* The text reaches the last-resort step: it is not empty after trimming and
\* neither fromisoformat nor a strptime format accepts it.
ReachesHeuristic(t) == parse_year_attempt(t) \in {"prefix", "none"}

\* The first four characters of the trimmed text are ASCII digits.
AsciiDigitPrefix(t) == Len(Strip(t)) >= 4 /\ AllDigits(SubSeq(Strip(t), 1, 4))

\* The reason the bad-rows file gives for the i-th row (none if not there).
ReasonOf(i) ==
  { badfile[j].fields[Len(header) + 1] : j \in { k \in 2..Len(badfile) : badfile[k].id = i } }

(* C26: of the texts that neither the generic parse nor the four formats
   accept, the last-resort step accepts exactly those whose first four
   characters are ASCII digits, and returns their value; a text with
   another character among its first four is rejected with the error that
   carries the original text. *)
C26_HeuristicAsciiOnly ==
  \A i \in 1..Handled :
    ReachesHeuristic(input[i][1]) =>
      IF AsciiDigitPrefix(input[i][1])
      THEN keys[i] = Num(SubSeq(Strip(input[i][1]), 1, 4))
      ELSE /\ keys[i] = NoYear
           /\ ReasonOf(i) = { <<"Unrecognized datetime format">> }

\* What the code keeps of C26: ASCII digit prefixes are accepted, and a
\* prefix with a character that is no digit at all is rejected with the
\* error that carries the text.
C26_HoldsWithoutOtherDigits ==
  \A i \in 1..Handled :
    (/\ ReachesHeuristic(input[i][1])
     /\ \A k \in 1..Len(input[i][1]) :
          input[i][1][k] \notin FullwidthDigitChars \cup NonDecimalDigitChars) =>
      IF AsciiDigitPrefix(input[i][1])
      THEN keys[i] = Num(SubSeq(Strip(input[i][1]), 1, 4))
      ELSE /\ keys[i] = NoYear
           /\ ReasonOf(i) = { <<"Unrecognized datetime format">> }

\* The segment files of the year with an index below the stored one.
PastSegments(yr) ==
  { out_path(yr, n) : n \in { m \in 0..total : m < YearStateGet(year_state, yr).chunk_idx } }

(* C27: closed segments are final.  Within a run no step appends a line to
   a segment file of a year whose index is below the year's stored segment
   index, or creates such a file again; and the step that writes a row
   appends it to the segment file of the year's stored index. *)
C27_ClosedSegmentsFinal ==
  /\ [][\A yr \in DOMAIN year_state : \A p \in PastSegments(yr) :
          IF p \in DOMAIN files
          THEN p \in DOMAIN files' => Len(files'[p]) <= Len(files[p])
          ELSE p \notin DOMAIN files']_vars
  /\ [][(pc = "write" /\ pc' = "loop") =>
          LET p == out_path(year, year_state[year].chunk_idx) IN
          /\ p \in DOMAIN files
          /\ files' = [files EXCEPT ![p] = Append(files[p], PartitionLine(total, row))]]_vars

\* A year is at segment 1, its segment 0 is still there with its rows, and
\* a row has been written to segment 1.
C27_Witness ==
  \E yr \in DOMAIN year_state :
    /\ year_state[yr].chunk_idx = 1
    /\ year_state[yr].rows_written >= 1
    /\ out_path(yr, 0) \in DOMAIN files
    /\ Len(DataLines(files[out_path(yr, 0)])) = max_rows_per_file
    /\ out_path(yr, 1) \in DOMAIN files
    /\ Len(DataLines(files[out_path(yr, 1)])) >= 1

(* C28: counter and file agree.  Between rows of a run started in an empty
   output directory, the stored row counter of every year equals the number
   of data rows in the file of the year's stored segment index, whether the
   file is open or evicted, and the data rows of all segment files plus the
   bad-row count equal the number of rows processed. *)
C28_CounterAndFileAgree ==
  BetweenRows =>
    /\ \A yr \in DOMAIN year_state :
         year_state[yr].rows_written =
           Len(DataLines(FileLines(out_path(yr, year_state[yr].chunk_idx))))
    /\ SumDataRows(DOMAIN files) + bad = total

\* Between rows: one year is in its second segment with a row there, another
\* year has rows in a file that is not open, and a bad row has been counted.
C28_Witness ==
  /\ pc = "loop"
  /\ bad >= 1
  /\ \E yr \in DOMAIN year_state :
       /\ year_state[yr].chunk_idx >= 1
       /\ year_state[yr].rows_written >= 1
  /\ \E yr \in DOMAIN year_state :
       /\ ~InCache(cache, yr)
       /\ year_state[yr].rows_written >= 1

\* The step is an iteration of the eviction loop of get_writer.
EvictionStep == pc = "lookup" /\ ~InCache(cache, year) /\ CacheFull(cache)

\* The close() calls the eviction loop has made for the row in hand.
EvictionsOfRow ==
  Cardinality({ i \in 1..Len(closed) : closed[i].by = "evict" /\ closed[i].at = total })

\* What C29 says of the loop itself: every iteration either closes one open
\* entry or ends get_writer with an error; an error opens no file and leaves
\* the per-year state alone; the file is opened with fewer than max_open
\* entries open; no more entries are closed for a row than were open.
EvictionLoopEnds ==
  /\ [][EvictionStep =>
          \/ /\ Len(cache') = Len(cache) - 1
             /\ Cardinality(open_fhs') = Cardinality(open_fhs) - 1
             /\ pc' = "lookup"
          \/ /\ pc' = "except"
             /\ UNCHANGED <<opened, files, year_state>>]_vars
  /\ [][(pc = "lookup" /\ ~InCache(cache, year) /\ pc' = "write") =>
          Len(cache) < max_open]_vars
  /\ [](pc = "lookup" => EvictionsOfRow + Len(cache) <= MaxOpenLimit)

(* C29: the eviction loop of get_writer ends for every cache state and every
   max_open, zero and negative included, after closing at most as many
   entries as were open, with fewer than max_open entries open or with an
   error that opens no file and leaves the year's state unchanged; and so a
   run always reaches the end of its input. *)
C29_EvictionLoopTerminates ==
  /\ EvictionLoopEnds
  /\ [](Ended => (pc = "done" /\ total = input_len))

\* The loop part of C29 alone; it holds for every max_open.
C29_HoldsForTheLoop ==
  /\ EvictionLoopEnds
  /\ [](pc = "done" => total = input_len)

\* With max_open below 1 a row whose year parsed has ended in the error of
\* the empty cache, and the run has gone on to its end.
C29_LoopEndsInError ==
  /\ max_open < 0
  /\ pc = "done"
  /\ bad >= 2
  /\ \E i \in 1..total : keys[i] # NoYear

====
